---- MODULE Spec2Model ----
(***************************************************************************)
(* Model of the two batch scripts of the repository:                       *)
(*   src/data/process_database.py      (the Filename Metadata Extractor)   *)
(*   src/tag_data/merge_predictions.py (the Table Merger)                  *)
(* A behaviour is one script invocation: prog says which one runs.         *)
(* Strings the code inspects character by character (filenames, transcript *)
(* contents) are sequences of one-character strings.                       *)
(***************************************************************************)
EXTENDS Integers, Sequences, FiniteSets, TLC

VARIABLES
    prog,          \* "parse" (parse_filename alone), "extractor", "merger"
    pc,            \* position of the running script
    err,           \* the exception that ended the run, or "none"
    filename,      \* parse: the argument of parse_filename
    parts,         \* parse: how the argument was put together (ghost)
    parsed,        \* parse: the returned 4-tuple, <<>> before the call
    dirExists,     \* extractor: data_path.exists()
    caseFold,      \* extractor: the platform's paths are case-insensitive
    dirNames,      \* extractor: names of the entries of the scan directory
    txtFiles,      \* extractor: state of each candidate transcript file
    audio_files,   \* extractor: the list built at line 96
    queue,         \* extractor: what is left of sorted(audio_files)
    records,       \* extractor: the list of record dicts
    diag,          \* extractor: the warnings printed, in order
    df,            \* extractor: the DataFrame process_database returned
    csv,           \* extractor: content of metadata.csv, None if not written
    run,           \* extractor: number of the current run over the directory
    prev,          \* extractor: outcome of the previous run
    all_predicted, \* merger: first input table
    segmented,     \* merger: second input table
    merged,        \* merger: the joined table
    combined       \* merger: content of segmented_combined.csv, None if not written

vars == <<prog, pc, err, filename, parts, parsed, dirExists, caseFold, dirNames,
          txtFiles, audio_files, queue, records, diag, df, csv, run, prev,
          all_predicted, segmented, merged, combined>>

parseVars == <<filename, parts, parsed>>
dirVars == <<dirExists, caseFold, dirNames, txtFiles>>
extractorVars == <<audio_files, queue, records, diag, df, csv, run, prev>>
mergerVars == <<all_predicted, segmented, merged, combined>>

(***************************************************************************)
(* Bounds of the model.                                                    *)
(***************************************************************************)
MaxFiles == 2      \* entries in the scan directory
MaxRuns == 2       \* runs of the Extractor over the same directory
MaxRows == 2       \* rows of each input table of the Merger

(***************************************************************************)
(* Optional values, characters, small helpers.                             *)
(***************************************************************************)
None == <<>>
Some(x) == <<x>>

Range(s) == {s[i] : i \in 1..Len(s)}

Digits == {"0", "1", "2", "3", "4", "5", "6", "7", "8", "9"}

DigitVal(c) ==
    CASE c = "0" -> 0 [] c = "1" -> 1 [] c = "2" -> 2 [] c = "3" -> 3
      [] c = "4" -> 4 [] c = "5" -> 5 [] c = "6" -> 6 [] c = "7" -> 7
      [] c = "8" -> 8 [] c = "9" -> 9

\* Code point of a character (the characters the model's names use).
Ord(c) ==
    CASE c = "." -> 46 [] c = "/" -> 47
      [] c \in Digits -> 48 + DigitVal(c)
      [] c = "A" -> 65 [] c = "F" -> 70 [] c = "G" -> 71 [] c = "M" -> 77
      [] c = "V" -> 86 [] c = "W" -> 87 [] c = "X" -> 88 [] c = "_" -> 95
      [] c = "a" -> 97 [] c = "d" -> 100 [] c = "f" -> 102 [] c = "g" -> 103 [] c = "m" -> 109
      [] c = "p" -> 112 [] c = "s" -> 115 [] c = "t" -> 116 [] c = "v" -> 118
      [] c = "w" -> 119 [] c = "x" -> 120

\* Case folding of one character.
Lower(c) ==
    CASE c = "A" -> "a" [] c = "F" -> "f" [] c = "G" -> "g" [] c = "M" -> "m"
      [] c = "V" -> "v" [] c = "W" -> "w" [] c = "X" -> "x"
      [] OTHER -> c

LowerStr(s) == [i \in 1..Len(s) |-> Lower(s[i])]

StartsWithAt(s, i, lit) ==
    /\ i + Len(lit) - 1 <= Len(s)
    /\ \A k \in 1..Len(lit) : s[i + k - 1] = lit[k]

EndsWith(s, lit) ==
    /\ Len(lit) <= Len(s)
    /\ \A k \in 1..Len(lit) : s[Len(s) - Len(lit) + k] = lit[k]

(***************************************************************************)
(* parse_filename (src/data/process_database.py:22-58).                    *)
(***************************************************************************)

\* Number of consecutive digits of s from position i on.
RECURSIVE DigitRun(_, _)
DigitRun(s, i) ==
    IF i <= Len(s) /\ s[i] \in Digits THEN 1 + DigitRun(s, i + 1) ELSE 0

\* re.match(r"G_(\d{4})_([MF])_(\d+)_st\.(WAV|wav)", s): a match anchored at
\* the start of s and not at its end. The groups, or None.
ReMatch(s) ==
    LET k == DigitRun(s, 10)
        ok == /\ StartsWithAt(s, 1, <<"G", "_">>)
              /\ Len(s) >= 9
              /\ \A i \in 3..6 : s[i] \in Digits
              /\ s[7] = "_"
              /\ s[8] \in {"M", "F"}
              /\ s[9] = "_"
              /\ k >= 1
              /\ StartsWithAt(s, 10 + k, <<"_", "s", "t", ".">>)
              /\ \/ StartsWithAt(s, 14 + k, <<"W", "A", "V">>)
                 \/ StartsWithAt(s, 14 + k, <<"w", "a", "v">>)
    IN  IF ok
        THEN Some([year |-> SubSeq(s, 3, 6), code |-> s[8],
                   id |-> SubSeq(s, 10, 9 + k)])
        ELSE None

\* int() of a string of decimal digits.
RECURSIVE IntOf(_)
IntOf(ds) ==
    IF ds = <<>> THEN 0
    ELSE 10 * IntOf(SubSeq(ds, 1, Len(ds) - 1)) + DigitVal(ds[Len(ds)])

current_year == 2025

\* Faulty variant: the two names exchanged.
GenderNameSwapped(gender_code) == IF gender_code = "F" THEN "male" ELSE "female"

\* "male" if gender_code == "M" else "female"
GenderName(gender_code) == IF gender_code = "M" THEN "male" ELSE "female"

\* The 4-tuple (speaker, gender, age, birth_year), each value optional.
parse_filename(fn) ==
    LET match == ReMatch(fn) IN
    IF match = None
    THEN <<None, None, None, None>>
    ELSE LET birth_year == IntOf(match[1].year)
             gender_code == match[1].code
             id_number == match[1].id
             speaker == <<gender_code, "_">> \o id_number
             gender == GenderName(gender_code)
             age == current_year - birth_year
         IN  <<Some(speaker), Some(gender), Some(age), Some(birth_year)>>

(***************************************************************************)
(* Arguments of parse_filename: a name is put together from six parts,     *)
(* each drawn from well-formed and ill-formed alternatives.                *)
(***************************************************************************)
PrefixPool == {<<"G", "_">>, <<"g", "_">>, <<"x", "G", "_">>}
YearPool ==
    { [txt |-> <<"1", "9", "9", "1">>, val |-> 1991],
      [txt |-> <<"1", "9", "8", "8">>, val |-> 1988],
      [txt |-> <<"2", "0", "2", "5">>, val |-> 2025],
      [txt |-> <<"0", "0", "0", "7">>, val |-> 7],
      [txt |-> <<"1", "9", "9">>, val |-> 199],
      [txt |-> <<"1", "9", "9", "1", "5">>, val |-> 19915] }
CodePool == {"M", "F", "X", "m"}
IdPool == {<<"2", "6">>, <<"0", "7">>, <<"1">>, <<>>, <<"x">>}
ExtPool == { <<".", "W", "A", "V">>, <<".", "w", "a", "v">>, <<".", "W", "a", "v">>,
             <<"x", "W", "A", "V">>, <<".", "m", "p", "3">> }
TailPool == {<<>>, <<".", "w", "a", "v">>, <<"x">>}

PartsPool ==
    [prefix : PrefixPool, year : YearPool, code : CodePool, id : IdPool,
     ext : ExtPool, tail : TailPool]

NameOf(p) ==
    p.prefix \o p.year.txt \o <<"_", p.code, "_">> \o p.id
        \o <<"_", "s", "t">> \o p.ext \o p.tail

\* The parts follow the grammar G_<4-digit year>_<M|F>_<digits>_st.<WAV|wav>.
InGrammar(p) ==
    /\ p.prefix = <<"G", "_">>
    /\ Len(p.year.txt) = 4
    /\ p.code \in {"M", "F"}
    /\ p.id # <<>> /\ Range(p.id) \subseteq Digits
    /\ p.ext \in {<<".", "W", "A", "V">>, <<".", "w", "a", "v">>}

NoParts == [prefix |-> <<>>, year |-> [txt |-> <<>>, val |-> 0], code |-> "",
            id |-> <<>>, ext |-> <<>>, tail |-> <<>>]

(***************************************************************************)
(* The scan directory (the environment of process_database).               *)
(***************************************************************************)
G_1991_M_26 == <<"G", "_", "1", "9", "9", "1", "_", "M", "_", "2", "6", "_", "s", "t">>
G_1988_F_07 == <<"G", "_", "1", "9", "8", "8", "_", "F", "_", "0", "7", "_", "s", "t">>

DirPool ==
    { G_1991_M_26 \o <<".", "W", "A", "V">>,
      G_1991_M_26 \o <<".", "w", "a", "v">>,
      G_1991_M_26 \o <<".", "W", "A", "V", ".", "w", "a", "v">>,
      G_1988_F_07 \o <<".", "w", "a", "v">>,
      G_1988_F_07 \o <<".", "W", "a", "v">>,
      <<"x", ".", "W", "A", "V">> }

Whitespace == {" ", "\n", "\t"}

Contents == { <<" ", "h", "i", " ", "u", "\n">>, <<"\n", " ">> }

TxtAbsent == [exists |-> FALSE, readable |-> FALSE, content |-> <<>>]
TxtStates ==
    {TxtAbsent, [exists |-> TRUE, readable |-> FALSE, content |-> <<>>]}
        \cup {[exists |-> TRUE, readable |-> TRUE, content |-> c] : c \in Contents}

\* Position of the last "." of a name, 0 if it has none.
RECURSIVE LastDot(_, _)
LastDot(s, i) == IF i = 0 THEN 0 ELSE IF s[i] = "." THEN i ELSE LastDot(s, i - 1)

\* Path.with_suffix(".txt"): the last suffix of the name replaced; a name with
\* no suffix (no dot, or only a leading or a trailing one) gets it appended.
WithSuffixTxt(name) ==
    LET i == LastDot(name, Len(name))
        stem == IF 1 < i /\ i < Len(name) THEN SubSeq(name, 1, i - 1) ELSE name
    IN  stem \o <<".", "t", "x", "t">>

TxtPool == {WithSuffixTxt(n) : n \in DirPool}

\* Key under which the platform compares and matches path names.
PathKey(name) == IF caseFold THEN LowerStr(name) ELSE name

\* Path.glob("*" + ext): the entries whose name ends with ext, as the platform
\* matches names (case-sensitive on POSIX, case-insensitive on Windows).
Glob(ext) == {n \in dirNames : EndsWith(PathKey(n), PathKey(ext))}

\* The orders in which a directory scan may return a set of entries.
Orders(S) ==
    {s \in [1..Cardinality(S) -> S] : \A i, j \in 1..Cardinality(S) : s[i] = s[j] => i = j}

\* a < b on strings: lexicographic by code point, a proper prefix first.
StrLess(a, b) ==
    \E i \in 1..Len(b) :
        /\ \A j \in 1..(i - 1) : j <= Len(a) /\ a[j] = b[j]
        /\ \/ i > Len(a)
           \/ Ord(a[i]) < Ord(b[i])

\* Path.__lt__ for two entries of the same directory.
PathLess(a, b) == StrLess(PathKey(a), PathKey(b))

RECURSIVE InsertSorted(_, _)
InsertSorted(x, s) ==
    IF s = <<>> THEN <<x>>
    ELSE IF PathLess(x, Head(s)) THEN <<x>> \o s
    ELSE <<Head(s)>> \o InsertSorted(x, Tail(s))

RECURSIVE SortRec(_)
SortRec(s) ==
    IF s = <<>> THEN <<>>
    ELSE InsertSorted(s[Len(s)], SortRec(SubSeq(s, 1, Len(s) - 1)))

\* Faulty variant: the loop runs over audio_files as the scan returned it.
Unsorted(s) == s

\* sorted(audio_files): a stable sort by Path order.
Sorted(s) == SortRec(s)

RECURSIVE LStrip(_)
LStrip(s) == IF s # <<>> /\ Head(s) \in Whitespace THEN LStrip(Tail(s)) ELSE s

RECURSIVE RStrip(_)
RStrip(s) ==
    IF s # <<>> /\ s[Len(s)] \in Whitespace THEN RStrip(SubSeq(s, 1, Len(s) - 1)) ELSE s

\* Faulty variant: the content is used as read.
NoStrip(s) == s

\* str.strip()
Strip(s) == RStrip(LStrip(s))

\* read_transcription (lines 61-77): the text returned and whether the
\* "Could not read" warning was printed.
read_transcription(txt_path) ==
    IF txtFiles[txt_path].readable
    THEN [text |-> Strip(txtFiles[txt_path].content), warned |-> FALSE]
    ELSE [text |-> <<>>, warned |-> TRUE]

\* str(audio_file.relative_to(data_path.parent)) for data_folder = "data"
RelPath(name) == <<"d", "a", "t", "a", "/">> \o name

column_order ==
    <<"file", "speaker", "gender", "age", "birth_year", "emotion", "transcription">>

\* Column labels of pd.DataFrame(records): the keys of the record dicts, none
\* when there is no record.
FrameColumns(recs) ==
    IF recs = <<>> THEN <<>>
    ELSE <<"file", "speaker", "gender", "age", "birth_year", "transcription">>

SeqWithout(s, x) == SelectSeq(s, LAMBDA c : c # x)

\* Lines 133-154: build the frame, add the emotion column, select the columns
\* of column_order (a KeyError when one is not a column), index by file.
BuildFrame(recs) ==
    LET cols == FrameColumns(recs) \o <<"emotion">>
        missing == {c \in Range(column_order) : c \notin Range(cols)}
        row(r) == r @@ [emotion |-> "unknown"]
    IN  IF missing # {}
        THEN [raised |-> "KeyError", frame |-> None]
        ELSE [raised |-> "none",
              frame |-> Some([index_name |-> "file",
                              index |-> [i \in 1..Len(recs) |-> recs[i].file],
                              columns |-> SeqWithout(column_order, "file"),
                              data |-> [i \in 1..Len(recs) |->
                                          [c \in Range(SeqWithout(column_order, "file"))
                                             |-> row(recs[i])[c]]]])]

\* Faulty variant: the existence check left out.
DataPathAssumed == TRUE

\* data_path.exists() (line 92)
DataPathExists == dirExists

Terminal == {"done", "failed"}

NoOutcome == [pc |-> "none", err |-> "none", csv |-> None]

(***************************************************************************)
(* The Merger (src/tag_data/merge_predictions.py): tables and the join.    *)
(* A table is its column labels in order and its rows, each row a function *)
(* from the labels to values.                                              *)
(***************************************************************************)
common_cols ==
    <<"file", "start", "end", "speaker", "gender", "age", "birth_year", "duration",
      "emotion", "text">>

Reverse(s) == [i \in 1..Len(s) |-> s[Len(s) + 1 - i]]

\* Column lists of segmented_linguistic-labels.csv the model reads.
LeftSchemas ==
    { common_cols \o <<"ling">>,
      <<"ling">> \o common_cols,
      Reverse(common_cols) \o <<"ling", "score">>,
      SeqWithout(common_cols, "text") \o <<"ling">>,
      common_cols }

\* Column lists of segmented_acoustic-labels.csv the model reads.
RightSchemas ==
    { common_cols \o <<"acou">>,
      <<"acou">> \o Reverse(common_cols) \o <<"score">>,
      SeqWithout(common_cols, "start") \o <<"acou">>,
      common_cols }

\* Key tuples of the rows: equal everywhere but in the column they name.
KeyTuple(d) == [c \in Range(common_cols) |-> IF c = d THEN 1 ELSE 0]
KeyTuples == {KeyTuple(d) : d \in {"none", "file", "text"}}

KeySeqs == UNION {[1..n -> KeyTuples] : n \in 0..MaxRows}

\* The table with the given columns whose i-th row has the i-th key tuple in
\* its key columns and base + i in every other column.
MakeTable(cols, keys, base) ==
    [columns |-> cols,
     rows |-> [i \in 1..Len(keys) |->
                 [c \in Range(cols) |->
                    IF c \in Range(common_cols) THEN keys[i][c] ELSE base + i]]]

\* Lines 31-32: [col for col in t.columns if col not in common_cols]
UniqueCols(t) == SelectSeq(t.columns, LAMBDA col : col \notin Range(common_cols))

\* t[labels]: the columns selected in the order asked for; a KeyError when a
\* label is not a column.
SelectCols(t, labels) ==
    IF \E c \in Range(labels) : c \notin Range(t.columns)
    THEN [raised |-> "KeyError", table |-> None]
    ELSE [raised |-> "none",
          table |-> Some([columns |-> labels,
                          rows |-> [i \in 1..Len(t.rows) |->
                                      [c \in Range(labels) |-> t.rows[i][c]]]])]

\* Faulty variant: the join keyed on the file column alone.
MergeOnFileOnly == <<"file">>

\* on=common_cols
MergeOn == common_cols

\* Label of a column in the result: a non-key label both tables have gets
\* the side's suffix.
Suffixed(c, on, other, sfx) ==
    IF c \notin Range(on) /\ c \in Range(other.columns) THEN c \o sfx ELSE c

\* Faulty variant: the right table's columns placed before the left table's.
MergedColumnsRightFirst(left, right, on) ==
    [i \in 1..Len(SelectSeq(right.columns, LAMBDA c : c \notin Range(on))) |->
       Suffixed(SelectSeq(right.columns, LAMBDA c : c \notin Range(on))[i], on, left, "_y")]
    \o [i \in 1..Len(left.columns) |-> Suffixed(left.columns[i], on, right, "_x")]

\* Column labels of pd.merge(left, right, on=on): the left table's columns in
\* its order, then the right table's columns that are not keys.
MergedColumns(left, right, on) ==
    [i \in 1..Len(left.columns) |-> Suffixed(left.columns[i], on, right, "_x")]
    \o [i \in 1..Len(SelectSeq(right.columns, LAMBDA c : c \notin Range(on))) |->
          Suffixed(SelectSeq(right.columns, LAMBDA c : c \notin Range(on))[i], on, left, "_y")]

\* Faulty variant: every pair of rows, whether or not the keys agree.
AllPairs(left, right, on) ==
    [k \in 1..(Len(left.rows) * Len(right.rows)) |->
        <<((k - 1) \div Len(right.rows)) + 1, ((k - 1) % Len(right.rows)) + 1>>]

\* The pairs (left row, right row) of an inner join, in the left table's row
\* order: the pairs that agree on every key.
InnerPairs(left, right, on) ==
    SelectSeq(
        [k \in 1..(Len(left.rows) * Len(right.rows)) |->
            <<((k - 1) \div Len(right.rows)) + 1, ((k - 1) % Len(right.rows)) + 1>>],
        LAMBDA p : \A c \in Range(on) : left.rows[p[1]][c] = right.rows[p[2]][c])

\* One row of the result from a left row and a right row.
JoinRow(left, right, on, l, r) ==
    LET lcols == {Suffixed(c, on, right, "_x") : c \in Range(left.columns)}
        rcols == {Suffixed(c, on, left, "_y") :
                    c \in {d \in Range(right.columns) : d \notin Range(on)}}
        lsrc(n) == CHOOSE c \in Range(left.columns) : Suffixed(c, on, right, "_x") = n
        rsrc(n) == CHOOSE c \in Range(right.columns) :
                      c \notin Range(on) /\ Suffixed(c, on, left, "_y") = n
    IN  [n \in lcols \cup rcols |-> IF n \in lcols THEN l[lsrc(n)] ELSE r[rsrc(n)]]

\* pd.merge(left, right, on=on, how="inner"): a KeyError when a key is not a
\* column of both tables.
PdMerge(left, right, on) ==
    IF \E c \in Range(on) : c \notin Range(left.columns) \/ c \notin Range(right.columns)
    THEN [raised |-> "KeyError", table |-> None]
    ELSE LET pairs == InnerPairs(left, right, on) IN
         [raised |-> "none",
          table |-> Some([columns |-> MergedColumns(left, right, on),
                          rows |-> [k \in 1..Len(pairs) |->
                                      JoinRow(left, right, on,
                                              left.rows[pairs[k][1]],
                                              right.rows[pairs[k][2]])]])]

EmptyTable == [columns |-> <<>>, rows |-> <<>>]

InitIdleMerger ==
    /\ all_predicted = EmptyTable /\ segmented = EmptyTable
    /\ merged = None /\ combined = None

(***************************************************************************)
(* Initial states: one script invocation and its inputs.                   *)
(***************************************************************************)
InitIdleParse == filename = <<>> /\ parts = NoParts /\ parsed = <<>>

InitIdleExtractor ==
    /\ dirExists = FALSE /\ caseFold = FALSE /\ dirNames = {}
    /\ txtFiles = [t \in TxtPool |-> TxtAbsent]
    /\ audio_files = <<>> /\ queue = <<>> /\ records = <<>> /\ diag = <<>>
    /\ df = None /\ csv = None /\ run = 1 /\ prev = NoOutcome

InitParse ==
    /\ prog = "parse" /\ pc = "start" /\ err = "none"
    /\ parts \in PartsPool
    /\ filename = NameOf(parts)
    /\ parsed = <<>>
    /\ InitIdleExtractor
    /\ InitIdleMerger

InitExtractor ==
    /\ prog = "extractor" /\ pc = "start" /\ err = "none"
    /\ InitIdleParse
    /\ dirExists \in BOOLEAN
    /\ caseFold \in BOOLEAN
    /\ dirNames \in SUBSET DirPool
    /\ Cardinality(dirNames) <= MaxFiles
    /\ ~dirExists => dirNames = {}
    \* a case-insensitive file system holds no two names equal up to case
    /\ caseFold => \A a, b \in dirNames : LowerStr(a) = LowerStr(b) => a = b
    /\ txtFiles \in [TxtPool -> TxtStates]
    \* only the transcripts of the files that get a row are ever looked at
    /\ \A t \in TxtPool :
         (\A n \in dirNames : ReMatch(n) = None \/ WithSuffixTxt(n) # t)
             => txtFiles[t] = TxtAbsent
    /\ audio_files = <<>> /\ queue = <<>> /\ records = <<>> /\ diag = <<>>
    /\ df = None /\ csv = None /\ run = 1 /\ prev = NoOutcome
    /\ InitIdleMerger

InitMerger ==
    /\ prog = "merger" /\ pc = "start" /\ err = "none"
    /\ InitIdleParse
    /\ InitIdleExtractor
    /\ \E ca \in LeftSchemas, ka \in KeySeqs :
         all_predicted = MakeTable(ca, ka, 10)
    /\ \E cb \in RightSchemas, kb \in KeySeqs :
         segmented = MakeTable(cb, kb, 20)
    /\ merged = None /\ combined = None

Init == InitParse \/ InitExtractor \/ InitMerger

(***************************************************************************)
(* Actions of the parse_filename invocation.                               *)
(***************************************************************************)
ParseFilename ==
    /\ prog = "parse" /\ pc = "start"
    /\ parsed' = parse_filename(filename)
    /\ pc' = "done"
    /\ UNCHANGED <<prog, err, filename, parts, dirVars, extractorVars, mergerVars>>

(***************************************************************************)
(* Actions of the Extractor (main and process_database).                   *)
(***************************************************************************)

\* Lines 90-100: the existence check, the two globs, the empty record list;
\* line 102 sorts the list the loop runs over.
ProcessDatabaseStart ==
    /\ prog = "extractor" /\ pc = "start"
    /\ IF ~DataPathExists
       THEN /\ pc' = "failed"
            /\ err' = "FileNotFoundError"
            /\ UNCHANGED <<audio_files, queue>>
       ELSE /\ \E upper \in Orders(Glob(<<".", "W", "A", "V">>)),
                  lower \in Orders(Glob(<<".", "w", "a", "v">>)) :
                 /\ audio_files' = upper \o lower
                 /\ queue' = Sorted(upper \o lower)
            /\ pc' = "loop"
            /\ err' = "none"
    /\ UNCHANGED <<prog, parseVars, dirVars, records, diag, df, csv, run, prev, mergerVars>>

\* Lines 102-131: one iteration of the loop.
ProcessFile ==
    /\ prog = "extractor" /\ pc = "loop" /\ queue # <<>>
    /\ LET audio_file == Head(queue)
           p == parse_filename(audio_file)
           txt_file == WithSuffixTxt(audio_file)
           exists == txt_file \in TxtPool /\ txtFiles[txt_file].exists
           got == IF exists THEN read_transcription(txt_file)
                  ELSE [text |-> <<>>, warned |-> FALSE]
       IN  IF p[1] = None
           THEN /\ diag' = Append(diag, [kind |-> "parse", name |-> audio_file])
                /\ UNCHANGED records
           ELSE /\ diag' = IF ~exists
                           THEN Append(diag, [kind |-> "no_transcription", name |-> audio_file])
                           ELSE IF got.warned
                           THEN Append(diag, [kind |-> "read", name |-> audio_file])
                           ELSE diag
                /\ records' = Append(records,
                                [file |-> RelPath(audio_file),
                                 speaker |-> p[1][1],
                                 gender |-> p[2][1],
                                 age |-> p[3][1],
                                 birth_year |-> p[4][1],
                                 transcription |-> got.text])
    /\ queue' = Tail(queue)
    /\ UNCHANGED <<prog, pc, err, parseVars, dirVars, audio_files, df, csv, run, prev,
                   mergerVars>>

\* Lines 133-154: the frame is built and returned, or the selection raises.
ProcessDatabaseReturn ==
    /\ prog = "extractor" /\ pc = "loop" /\ queue = <<>>
    /\ LET b == BuildFrame(records) IN
         IF b.raised # "none"
         THEN /\ pc' = "failed" /\ err' = b.raised /\ UNCHANGED df
         ELSE /\ pc' = "returned" /\ df' = b.frame /\ UNCHANGED err
    /\ UNCHANGED <<prog, parseVars, dirVars, audio_files, queue, records, diag, csv, run,
                   prev, mergerVars>>

\* main, lines 164-178: the summary is printed and metadata.csv is written.
MainSave ==
    /\ prog = "extractor" /\ pc = "returned"
    /\ csv' = df
    /\ pc' = "done"
    /\ UNCHANGED <<prog, err, parseVars, dirVars, audio_files, queue, records, diag, df,
                   run, prev, mergerVars>>

\* The script is started again over the unchanged directory.
RunAgain ==
    /\ prog = "extractor" /\ pc \in Terminal /\ run < MaxRuns
    /\ prev' = [pc |-> pc, err |-> err, csv |-> csv]
    /\ run' = run + 1
    /\ pc' = "start" /\ err' = "none"
    /\ audio_files' = <<>> /\ queue' = <<>> /\ records' = <<>> /\ diag' = <<>>
    /\ df' = None
    \* metadata.csv of the previous run stays on disk until it is overwritten
    /\ UNCHANGED <<csv, prog, parseVars, dirVars, mergerVars>>

(***************************************************************************)
(* Actions of the Merger.                                                  *)
(***************************************************************************)

\* Lines 31-44: the second table's columns are selected, keys first, and the
\* tables are joined on the keys.
MergeTables ==
    /\ prog = "merger" /\ pc = "start"
    /\ LET sel == SelectCols(segmented, common_cols \o UniqueCols(segmented)) IN
         IF sel.raised # "none"
         THEN /\ pc' = "failed" /\ err' = sel.raised /\ UNCHANGED merged
         ELSE LET m == PdMerge(all_predicted, sel.table[1], MergeOn) IN
              IF m.raised # "none"
              THEN /\ pc' = "failed" /\ err' = m.raised /\ UNCHANGED merged
              ELSE /\ pc' = "merged" /\ merged' = m.table /\ UNCHANGED err
    /\ UNCHANGED <<prog, parseVars, dirVars, extractorVars, all_predicted, segmented,
                   combined>>

\* Lines 50-51: merged.to_csv("segmented_combined.csv", index=False)
SaveMerged ==
    /\ prog = "merger" /\ pc = "merged"
    /\ combined' = merged
    /\ pc' = "done"
    /\ UNCHANGED <<prog, err, parseVars, dirVars, extractorVars, all_predicted, segmented,
                   merged>>

Next ==
    \/ ParseFilename
    \/ ProcessDatabaseStart
    \/ ProcessFile
    \/ ProcessDatabaseReturn
    \/ MainSave
    \/ RunAgain
    \/ MergeTables
    \/ SaveMerged

Spec == Init /\ [][Next]_vars

(***************************************************************************)
(* Properties.                                                             *)
(***************************************************************************)

Matches(name) == ReMatch(name) # None

\* Rows of a frame whose file is the given one.
RowsOf(frame, file) == {i \in 1..Len(frame.index) : frame.index[i] = file}

\* C1: the table process_database returns has exactly one row for each audio
\* file the *.WAV / *.wav scan found whose name matches the grammar, no row
\* for any other file, and pairwise distinct file values.
C1_OneRowPerMatchingFile ==
    (prog = "extractor" /\ pc \in {"returned", "done"}) =>
        /\ \A n \in DirPool :
             Cardinality(RowsOf(df[1], RelPath(n))) =
                 IF n \in Range(audio_files) /\ Matches(n) THEN 1 ELSE 0
        /\ \A i, j \in 1..Len(df[1].index) :
             df[1].index[i] = df[1].index[j] => i = j

\* C2: for a filename that follows the grammar parse_filename returns
\* speaker = code + "_" + id as matched, gender "male" iff the code is "M" and
\* "female" iff it is "F", birth_year = the value of the year group and
\* age + birth_year = 2025; for any other filename all four are absent.
C2_ParseFilename ==
    (prog = "parse" /\ pc = "done") =>
        IF InGrammar(parts)
        THEN /\ parsed[1] = Some(<<parts.code, "_">> \o parts.id)
             /\ parsed[2] \in {Some("male"), Some("female")}
             /\ parsed[2] = Some("male") <=> parts.code = "M"
             /\ parsed[2] = Some("female") <=> parts.code = "F"
             /\ parsed[4] = Some(parts.year.val)
             /\ parsed[3] # None
             /\ parsed[3][1] + parsed[4][1] = 2025
        ELSE parsed = <<None, None, None, None>>

C2_Witness ==
    /\ prog = "parse" /\ pc = "done"
    /\ InGrammar(parts)
    /\ parts.id = <<"0", "7">> /\ parts.code = "F" /\ parts.tail # <<>>
    /\ parsed = <<Some(<<"F", "_", "0", "7">>), Some("female"), Some(37), Some(1988)>>

KeysAgree(a, b) == \A c \in Range(common_cols) : a[c] = b[c]

\* C3: the merged table has a row only if a row of the first table and a row
\* of the second agree on all 10 key columns (and the row carries those key
\* values); tables with disjoint key tuples merge to zero rows.
C3_InnerJoinOnAllKeys ==
    (prog = "merger" /\ pc \in {"merged", "done"}) =>
        /\ \A k \in 1..Len(merged[1].rows) :
             \E i \in 1..Len(all_predicted.rows), j \in 1..Len(segmented.rows) :
                /\ KeysAgree(all_predicted.rows[i], segmented.rows[j])
                /\ \A c \in Range(common_cols) :
                     /\ c \in DOMAIN merged[1].rows[k]
                     /\ merged[1].rows[k][c] = all_predicted.rows[i][c]
        /\ (\A i \in 1..Len(all_predicted.rows), j \in 1..Len(segmented.rows) :
               ~KeysAgree(all_predicted.rows[i], segmented.rows[j]))
              => merged[1].rows = <<>>
        /\ pc = "done" => combined = merged

C3_Witness ==
    /\ prog = "merger" /\ pc = "done"
    /\ Len(combined[1].rows) = 1
    /\ Len(all_predicted.rows) = 2 /\ Len(segmented.rows) = 2
    /\ \E i \in 1..2, j \in 1..2 :
         /\ all_predicted.rows[i]["file"] = segmented.rows[j]["file"]
         /\ all_predicted.rows[i]["text"] # segmented.rows[j]["text"]

HasSchema(frame) ==
    /\ frame.index_name = "file"
    /\ frame.columns = <<"speaker", "gender", "age", "birth_year", "emotion", "transcription">>

\* C4: when the directory exists and the scan finds no audio file, the run
\* completes without raising and returns a table of zero rows with the schema.
C4_EmptyScanGivesEmptyTable ==
    (prog = "extractor" /\ dirExists /\ pc \in Terminal /\ audio_files = <<>>) =>
        /\ pc = "done" /\ err = "none"
        /\ df # None /\ HasSchema(df[1]) /\ df[1].data = <<>>

\* C5: a run over an existing directory ends in success whatever the number
\* of files skipped and of transcripts missing or unreadable.
C5_SkipsNeverFail ==
    (prog = "extractor" /\ dirExists /\ pc \in Terminal) => (pc = "done" /\ err = "none")

\* The name of the audio file a record was made from.
NameOfRecord(r) == SubSeq(r.file, 6, Len(r.file))

\* s is the sibling of the audio file: the same stem, the extension .txt.
IsSibling(s, name) ==
    /\ EndsWith(s, <<".", "t", "x", "t">>)
    /\ LET stem == SubSeq(s, 1, Len(s) - 4) IN
         /\ Len(name) > Len(stem) + 1
         /\ SubSeq(name, 1, Len(stem)) = stem
         /\ name[Len(stem) + 1] = "."
         /\ \A i \in (Len(stem) + 2)..Len(name) : name[i] # "."

\* t is c without its leading and trailing whitespace.
IsStripOf(t, c) ==
    \E i \in 0..Len(c) :
        /\ i + Len(t) <= Len(c)
        /\ SubSeq(c, i + 1, i + Len(t)) = t
        /\ \A k \in 1..i : c[k] \in Whitespace
        /\ \A k \in (i + Len(t) + 1)..Len(c) : c[k] \in Whitespace
        /\ t # <<>> => (t[1] \notin Whitespace /\ t[Len(t)] \notin Whitespace)

Warned(name) ==
    \E k \in 1..Len(diag) :
        diag[k].name = name /\ diag[k].kind \in {"no_transcription", "read"}

\* C6: the transcription of a row is the stripped content of the sibling .txt
\* file when it exists and can be read, and the empty string, with a warning,
\* when it is absent or cannot be read; the row is emitted either way and the
\* files after it are processed.
C6_Transcription ==
    prog = "extractor" =>
        /\ \A i \in 1..Len(records) :
             \E s \in TxtPool :
                /\ IsSibling(s, NameOfRecord(records[i]))
                /\ IF txtFiles[s].exists /\ txtFiles[s].readable
                   THEN IsStripOf(records[i].transcription, txtFiles[s].content)
                   ELSE records[i].transcription = <<>> /\ Warned(NameOfRecord(records[i]))
        /\ pc \in {"returned", "done"} =>
             /\ \A n \in Range(audio_files) :
                  Matches(n) => \E i \in 1..Len(records) : records[i].file = RelPath(n)
             /\ Len(df[1].data) = Len(records)
             /\ \A i \in 1..Len(records) :
                  /\ df[1].index[i] = records[i].file
                  /\ df[1].data[i].transcription = records[i].transcription

C6_Witness ==
    /\ prog = "extractor" /\ pc = "done"
    /\ Len(records) = 2
    /\ records[1].transcription = <<>>
    /\ \E k \in 1..Len(diag) : diag[k].kind = "read"
    /\ records[2].transcription = <<"h", "i", " ", "u">>

MissingKey(t) == \E c \in Range(common_cols) : c \notin Range(t.columns)

\* C7: a scan directory that does not exist ends the Extractor with
\* FileNotFoundError and metadata.csv is not written; a key column missing
\* from either input table ends the Merger with an error in the join and
\* segmented_combined.csv is not written.
C7_FatalAborts ==
    /\ (prog = "extractor" /\ ~dirExists) =>
          /\ csv = None /\ df = None /\ records = <<>>
          /\ pc \in {"start", "failed"}
          /\ pc = "failed" => err = "FileNotFoundError"
    /\ (prog = "merger" /\ (MissingKey(all_predicted) \/ MissingKey(segmented))) =>
          /\ combined = None /\ merged = None
          /\ pc \in {"start", "failed"}
          /\ pc = "failed" => err = "KeyError"

C7_Witness ==
    /\ prog = "merger" /\ pc = "failed" /\ err = "KeyError"
    /\ MissingKey(all_predicted) /\ ~MissingKey(segmented)
    /\ all_predicted.rows # <<>> /\ segmented.rows # <<>>
    /\ combined = None

KeyPart(row) == [c \in Range(common_cols) |-> row[c]]
KeyContent(t) == [i \in 1..Len(t.rows) |-> KeyPart(t.rows[i])]
DisjointUnique(a, b) == Range(UniqueCols(a)) \cap Range(UniqueCols(b)) = {}
DistinctKeys(t) ==
    \A i, j \in 1..Len(t.rows) : KeyPart(t.rows[i]) = KeyPart(t.rows[j]) => i = j

\* C8 as stated: two tables with identical key-column content and disjoint
\* unique columns merge to as many rows as either input has, and to
\* 10 + (unique columns of the first) + (unique columns of the second) columns.
C8_SameRowCount ==
    (/\ prog = "merger" /\ pc = "done"
     /\ KeyContent(all_predicted) = KeyContent(segmented)
     /\ DisjointUnique(all_predicted, segmented)) =>
        /\ Len(combined[1].rows) = Len(all_predicted.rows)
        /\ Len(combined[1].columns) =
               10 + Len(UniqueCols(all_predicted)) + Len(UniqueCols(segmented))

\* C8 amended: the same, for tables whose key tuples are pairwise distinct
\* within each table (the same set of key tuples in both, in any row order).
C8_SameRowCountDistinctKeys ==
    (/\ prog = "merger" /\ pc = "done"
     /\ Range(KeyContent(all_predicted)) = Range(KeyContent(segmented))
     /\ DistinctKeys(all_predicted) /\ DistinctKeys(segmented)
     /\ DisjointUnique(all_predicted, segmented)) =>
        /\ Len(combined[1].rows) = Len(all_predicted.rows)
        /\ Len(combined[1].rows) = Len(segmented.rows)
        /\ Len(combined[1].columns) =
               10 + Len(UniqueCols(all_predicted)) + Len(UniqueCols(segmented))
        /\ Cardinality(Range(combined[1].columns)) = Len(combined[1].columns)

C8_Witness ==
    /\ prog = "merger" /\ pc = "done"
    /\ Len(all_predicted.rows) = MaxRows
    /\ DistinctKeys(all_predicted) /\ DistinctKeys(segmented)
    /\ Range(KeyContent(all_predicted)) = Range(KeyContent(segmented))
    /\ KeyContent(all_predicted) # KeyContent(segmented)
    /\ UniqueCols(all_predicted) # <<>> /\ UniqueCols(segmented) # <<>>
    /\ DisjointUnique(all_predicted, segmented)
    /\ Len(combined[1].rows) = MaxRows

\* C9 as stated: in the output the 10 key columns come first in their declared
\* order, then the first table's unique columns, then the second table's,
\* whatever the column order of the inputs.
C9_KeysFirst ==
    (prog = "merger" /\ pc = "done") =>
        combined[1].columns =
            common_cols \o UniqueCols(all_predicted) \o UniqueCols(segmented)

\* The label a column of one table has in the output: a unique column whose
\* label the other table has too carries the suffix of its side.
OutLabel(c, other, sfx) ==
    IF c \notin Range(common_cols) /\ c \in Range(other.columns) THEN c \o sfx ELSE c

\* C9 amended: the output has the first table's columns in the first table's
\* own order (keys and unique columns as they stand there), then the second
\* table's unique columns in its order; each key column appears once; a unique
\* label both tables have appears as label_x and label_y. The keys come first
\* in declared order when the first table has them so.
C9_LeftOrderThenRightUnique ==
    (prog = "merger" /\ pc = "done") =>
        LET out == combined[1].columns
            nl == Len(all_predicted.columns)
            ru == UniqueCols(segmented)
        IN  /\ Len(out) = nl + Len(ru)
            /\ \A i \in 1..nl : out[i] = OutLabel(all_predicted.columns[i], segmented, "_x")
            /\ \A i \in 1..Len(ru) : out[nl + i] = OutLabel(ru[i], all_predicted, "_y")
            /\ \A c \in Range(common_cols) :
                 Cardinality({i \in 1..Len(out) : out[i] = c}) = 1
            /\ SubSeq(all_predicted.columns, 1, 10) = common_cols
                 => SubSeq(out, 1, 10) = common_cols

C9_Witness ==
    /\ prog = "merger" /\ pc = "done"
    /\ all_predicted.columns[1] = "ling"
    /\ combined[1].columns[1] = "ling"
    /\ combined[1].columns[2] = "file"
    /\ combined[1].columns[Len(combined[1].columns)] = "score"
    /\ combined[1].rows # <<>>

\* C10: the output does not depend on the order in which the scan returns the
\* files: the rows are in ascending order of filename, and a second run over
\* the unchanged directory ends as the first did, with the same metadata.csv.
C10_Deterministic ==
    prog = "extractor" =>
        /\ \A i \in 1..(Len(records) - 1) :
             ~StrLess(PathKey(records[i + 1].file), PathKey(records[i].file))
        /\ (run >= 2 /\ pc \in Terminal) =>
             /\ pc = prev.pc /\ err = prev.err /\ csv = prev.csv
             /\ pc = "done" => csv = df

C10_Witness ==
    /\ prog = "extractor" /\ run = 2 /\ pc = "done"
    /\ Len(audio_files) = 2
    /\ StrLess(audio_files[2], audio_files[1])
    /\ Len(csv[1].data) = 2
    /\ StrLess(csv[1].index[1], csv[1].index[2])
    /\ csv = prev.csv

====
